---- MODULE Spec2Model ----
(***************************************************************************)
(* Model of android_flash_tool (main.cpp): the file-name classifier        *)
(* guess_partition_from_filename, the flashing sequencer auto_flash_flow,  *)
(* the logger log_action and the menu loop of main.                        *)
(*                                                                         *)
(* Strings that the code inspects character by character (file names,      *)
(* paths, the y/N answer) are sequences of one-character strings.  Strings *)
(* the code only compares or passes on (partition names, log fields, the   *)
(* confirmation word) are TLA+ strings.                                    *)
(***************************************************************************)
EXTENDS Integers, Sequences, FiniteSets, TLC

(* ------------------------------ bounds -------------------------------- *)
MaxImgs == 3        \* longest directory listing explored
MaxDevices == 2     \* most fastboot devices enumerated

(* --------------------------- character data --------------------------- *)
UpperChars == <<"A","B","C","D","E","F","G","H","I","J","K","L","M",
                "N","O","P","Q","R","S","T","U","V","W","X","Y","Z">>
LowerChars == <<"a","b","c","d","e","f","g","h","i","j","k","l","m",
                "n","o","p","q","r","s","t","u","v","w","x","y","z">>

\* tolower((unsigned char)c) in the C locale
tolower(c) ==
  IF \E k \in 1..26 : UpperChars[k] = c
    THEN LowerChars[CHOOSE k \in 1..26 : UpperChars[k] = c]
    ELSE c

\* toupper, used only to build case variants of the inputs
toupper(c) ==
  IF \E k \in 1..26 : LowerChars[k] = c
    THEN UpperChars[CHOOSE k \in 1..26 : LowerChars[k] = c]
    ELSE c

\* a slip that forgets the case folding
ToLowerStr_NoFold(s) == s

\* for (auto& c : s) c = tolower(c)
ToLowerStr(s) == [k \in 1..Len(s) |-> tolower(s[k])]
ToUpperStr(s) == [k \in 1..Len(s) |-> toupper(s[k])]

\* s.find(pat) != string::npos
Contains(s, pat) ==
  \E k \in 0..(Len(s) - Len(pat)) : SubSeq(s, k + 1, k + Len(pat)) = pat

(* the marker literals of guess_partition_from_filename *)
M_boot_img     == <<"b","o","o","t",".","i","m","g">>
M_vendor_boot  == <<"v","e","n","d","o","r","_","b","o","o","t">>
M_system_img   == <<"s","y","s","t","e","m",".","i","m","g">>
M_vendor_img   == <<"v","e","n","d","o","r",".","i","m","g">>
M_vbmeta_img   == <<"v","b","m","e","t","a",".","i","m","g">>
M_recovery_img == <<"r","e","c","o","v","e","r","y",".","i","m","g">>
M_product_img  == <<"p","r","o","d","u","c","t",".","i","m","g">>
M_userdata_img == <<"u","s","e","r","d","a","t","a",".","i","m","g">>
M_boot         == <<"b","o","o","t">>
M_system       == <<"s","y","s","t","e","m">>
M_vendor       == <<"v","e","n","d","o","r">>

\* the rules in the order the code tests them
guess_partition_from_filename(fname) ==
  LET s == ToLowerStr(fname) IN
  IF Contains(s, M_boot_img) THEN "boot"
  ELSE IF Contains(s, M_vendor_boot) THEN "vendor_boot"
  ELSE IF Contains(s, M_system_img) THEN "system"
  ELSE IF Contains(s, M_vendor_img) THEN "vendor"
  ELSE IF Contains(s, M_vbmeta_img) THEN "vbmeta"
  ELSE IF Contains(s, M_recovery_img) THEN "recovery"
  ELSE IF Contains(s, M_product_img) THEN "product"
  ELSE IF Contains(s, M_userdata_img) THEN "userdata"
  ELSE IF Contains(s, M_boot) THEN "boot"
  ELSE IF Contains(s, M_system) THEN "system"
  ELSE IF Contains(s, M_vendor) THEN "vendor"
  ELSE ""

Partitions == {"boot", "vendor_boot", "system", "vendor", "vbmeta",
               "recovery", "product", "userdata"}

(* ----------------------- inputs of the classifier --------------------- *)
NamePrefixes == { <<>>, <<"a","_">>, <<"X","-">> }
NameCores ==
  { M_vendor_boot, <<"V","E","N","D","O","R","_","B","O","O","T">>,
    <<"V","e","n","d","o","r","_","B","o","o","t">>,
    M_boot, <<"B","O","O","T">>, M_system, M_vendor,
    <<"v","b","m","e","t","a">>, <<"r","e","c","o","v","e","r","y">>,
    <<"R","E","C","O","V","E","R","Y">>, <<"p","r","o","d","u","c","t">>,
    <<"u","s","e","r","d","a","t","a">>,
    <<"r","a","n","d","o","m","_","b","l","o","b">>,
    <<"b","o","o">>, <<"v","e","n","d","o","r","_","b","o","o">> }
NameSuffixes ==
  { <<>>, <<".","i","m","g">>, <<".","I","M","G">>, <<".","b","i","n">>,
    <<"_","a",".","i","m","g">> }
ClassifierNames ==
  { p \o c \o x : p \in NamePrefixes, c \in NameCores, x \in NameSuffixes }

(* ------------------------------ state --------------------------------- *)
VARIABLES
  pc,          \* position of the single thread
  exitCode,    \* value returned by main, -1 while running
  exitCause,   \* why main returned
  menuShown,   \* prompt_menu has been called at least once
  branch,      \* selection made in the current menu iteration
  trace,       \* external calls and console reports of the current iteration
  rows,        \* user_logs rows inserted in the current iteration
  imgs,        \* auto_flash_flow: vector<string> imgs
  i,           \* auto_flash_flow: loop index (1-based)
  serial,      \* chosen fastboot serial (index into the enumerated devices)
  devices,     \* size of the last fastboot_list_devices() result
  outcome,     \* how the last auto_flash_flow call returned
  confirm,     \* word read by cin >> confirm
  flashOut,    \* per image: would fastboot print OKAY/Flashing for it
  cname,       \* classifier specification: the file name
  cres,        \* classifier specification: the result
  xin,         \* extraction specification: directory, archive and tools given
  tdir,        \* extraction specification: content of each file of target_dir
  xcalls,      \* extraction specification: extractor commands run
  xres         \* extraction specification: value returned

vars == <<pc, exitCode, exitCause, menuShown, branch, trace, rows, imgs, i,
          serial, devices, outcome, confirm, flashOut, cname, cres,
          xin, tdir, xcalls, xres>>

flowVars == <<imgs, i, outcome, confirm, flashOut>>
extractVars == <<xin, tdir, xcalls, xres>>
\* the variables of the stand-alone specifications, untouched by the menu loop
classVars == <<cname, cres, extractVars>>

(* ------------------------------ events -------------------------------- *)
\* one entry of trace; unused fields are "" or 0
Ev(kind, act, part, res, idx) ==
  [kind |-> kind, act |-> act, part |-> part, res |-> res, idx |-> idx]

Say(msg) == Ev("print", msg, "", "", 0)

SelectKind(tr, kind) == SelectSeq(tr, LAMBDA e : e.kind = kind)

(* ------------------------------ logging ------------------------------- *)
\* a slip that lets the SQLException escape log_action
log_action_Propagates(tr, rw, act, part, res, dbOk) ==
  IF dbOk
    THEN [trace |-> tr \o <<Ev("log", act, part, res, 1)>>,
          rows |-> Append(rw, <<act, part, res>>), threw |-> FALSE]
    ELSE [trace |-> tr \o <<Ev("log", act, part, res, 0)>>,
          rows |-> rw, threw |-> TRUE]

\* log_action: one INSERT; an SQLException is caught and shown as [DB WARN].
\* dbOk is whether the statement executes; idx of the event is 1 when the row
\* was inserted.  threw tells the caller that an exception left the call.
log_action(tr, rw, act, part, res, dbOk) ==
  IF dbOk
    THEN [trace |-> tr \o <<Ev("log", act, part, res, 1)>>,
          rows |-> Append(rw, <<act, part, res>>), threw |-> FALSE]
    ELSE [trace |-> tr \o <<Ev("log", act, part, res, 0), Say("db_warn")>>,
          rows |-> rw, threw |-> FALSE]

(* -------------------------- directory listing ------------------------- *)
Dir == <<"d">>

F_a_boot    == <<"a","_">> \o M_boot_img
F_b_system  == <<"b","_">> \o M_system_img
F_c_unknown == <<"c","_","u","n","k","n","o","w","n",".","b","i","n">>
F_vendor    == M_vendor_img
FlowFiles == { F_a_boot, F_b_system, F_c_unknown, F_vendor }

RECURSIVE DistinctSeqs(_, _)
\* the sequences of distinct elements of S of length at most n
DistinctSeqs(S, n) ==
  IF n = 0 \/ S = {} THEN { <<>> }
  ELSE { <<>> } \cup
       UNION { { <<x>> \o t : t \in DistinctSeqs(S \ {x}, n - 1) } : x \in S }

\* what the listing command prints: one distinct name per line, in the
\* order the command chooses, with or without a carriage return
Listings == DistinctSeqs(FlowFiles, MaxImgs)
RawListing(l, crlf) ==
  [k \in 1..Len(l) |-> IF crlf THEN l[k] \o <<"\r">> ELSE l[k]]

RECURSIVE TrimLine(_)
\* while (!line.empty() && (line.back() == '\r' || ...)) line.pop_back()
TrimLine(line) ==
  IF line # <<>> /\ line[Len(line)] \in {"\r", "\n"}
    THEN TrimLine(SubSeq(line, 1, Len(line) - 1))
    ELSE line

RECURSIVE list_img_files_in_dir(_, _)
\* every non-empty trimmed line becomes dir + "/" + line
list_img_files_in_dir(dir, lines) ==
  IF lines = <<>> THEN <<>>
  ELSE LET line == TrimLine(Head(lines))
           rest == list_img_files_in_dir(dir, Tail(lines))
       IN IF line = <<>> THEN rest ELSE <<dir \o <<"/">> \o line>> \o rest

\* fname.substr(fname.find_last_of("/\\") + 1)
Basename(path) ==
  LET seps == { k \in 1..Len(path) : path[k] \in {"/", "\\"} } IN
  IF seps = {} THEN path
  ELSE SubSeq(path, (CHOOSE k \in seps : \A m \in seps : m <= k) + 1, Len(path))

(* --------------------------- small decisions -------------------------- *)
ConfirmWords == {"YES", "yes", "NO", ""}

\* a slip that takes any word as consent
ConfirmAccepted_Any(word) == TRUE

\* the negation of: if (confirm != "YES")
ConfirmAccepted(word) == word = "YES"

\* a slip that keeps flashing after a failure
StopsOnFailure_Never(ok) == FALSE

\* if (!ok) { ...; return; }
StopsOnFailure(ok) == ~ok

\* a slip that treats an unrecognised file as a failed flash
SkipsUnmatched_AsFailure(partition) == FALSE

\* if (partition.empty()) { warn; continue; }
SkipsUnmatched(partition) == partition = ""

\* a slip that asks for confirmation even when nothing was found
NoImages_Ignored(list) == FALSE

\* if (imgs.empty()) { ...; return; }
NoImages(list) == list = <<>>

\* a slip that goes on with an empty device list
NoDevices_Ignored(n) == FALSE

\* if (devices.empty()) { warn; continue; }
NoDevices(n) == n = 0

\* if (idx < 1 || idx > devices.size()) idx = 1; devices[idx - 1]
ChooseSerial(n, idx) ==
  IF n > 1 THEN (IF idx < 1 \/ idx > n THEN 1 ELSE idx) ELSE 1

Answers == { <<"y">>, <<"Y","e","s">>, <<"n">>, <<>> }

\* !ans.empty() && (ans[0] == 'y' || ans[0] == 'Y')
AnswersYes(ans) == ans # <<>> /\ ans[1] \in {"y", "Y"}

OkFail(ok) == IF ok THEN "OK" ELSE "FAIL"

(* ------------------------------- main --------------------------------- *)
\* a slip that returns 0 from the generic handler
ExitCodeOf_GenericZero(cause) == IF cause \in {"db_connect", "sql"} THEN 1 ELSE 0

\* return 0 after the loop; return 1 in both catch clauses
ExitCodeOf(cause) == IF cause = "quit" THEN 0 ELSE 1

\* main returns: the trace ends with the message printed on the way out
Leave(cause, tr) ==
  /\ pc' = "exited"
  /\ exitCause' = cause
  /\ exitCode' = ExitCodeOf(cause)
  /\ trace' = tr

\* no extraction under way
ExtractIdle ==
  /\ xin = [dir |-> <<>>, archive |-> {}, unzipOk |-> FALSE, tarOk |-> FALSE]
  /\ tdir = <<>>
  /\ xcalls = <<>>
  /\ xres = FALSE

Init ==
  /\ ExtractIdle
  /\ pc = "start"
  /\ exitCode = -1
  /\ exitCause = "none"
  /\ menuShown = FALSE
  /\ branch = -1
  /\ trace = <<>>
  /\ rows = <<>>
  /\ imgs = <<>>
  /\ i = 0
  /\ serial = 0
  /\ devices = 0
  /\ outcome = "none"
  /\ confirm = ""
  /\ flashOut = <<>>
  /\ cname = <<>>
  /\ cres = ""

\* driver->connect(...) and ensure_logging_db(con)
Connect ==
  /\ pc = "start"
  /\ \E connOk \in BOOLEAN, schemaOk \in BOOLEAN :
       IF ~connOk
         THEN /\ Leave("db_connect",
                       <<Ev("connect", "", "", "FAIL", 0), Say("[DB ERROR]")>>)
              /\ UNCHANGED <<menuShown, branch, rows, serial, devices>>
         ELSE /\ trace' = <<Ev("connect", "", "", "OK", 0)>> \o
                          (IF schemaOk THEN <<>> ELSE <<Say("db_warn")>>)
              /\ pc' = "menu"
              /\ UNCHANGED <<exitCode, exitCause, menuShown, branch, rows,
                             serial, devices>>
  /\ UNCHANGED <<flowVars, classVars>>

Selections == -1..6

\* print_banner(); sel = prompt_menu(); if (sel == 0) break;
\* the locals of the previous iteration are gone, so the record of the
\* iteration starts afresh
PromptMenu ==
  /\ pc = "menu"
  /\ \E sel \in Selections :
       /\ branch' = sel
       /\ menuShown' = TRUE
       /\ rows' = <<>>
       /\ serial' = 0
       /\ devices' = 0
       /\ imgs' = <<>>
       /\ i' = 0
       /\ outcome' = "none"
       /\ confirm' = ""
       /\ flashOut' = <<>>
       /\ IF sel = 0
            THEN Leave("quit", <<Say("goodbye")>>)
            ELSE /\ pc' = "dispatch"
                 /\ trace' = <<>>
                 /\ UNCHANGED <<exitCode, exitCause>>
  /\ UNCHANGED classVars

\* sel == 1: download, extract, offer to flash
Download ==
  /\ pc = "dispatch" /\ branch = 1
  /\ \E urlEmpty \in BOOLEAN, dlOk \in BOOLEAN, dbOk \in BOOLEAN,
        extracted \in BOOLEAN, ans \in Answers,
        n \in 0..MaxDevices, idx \in 0..(MaxDevices + 1) :
       IF urlEmpty
         THEN /\ trace' = trace \o <<Say("no_url")>>
              /\ pc' = "menu"
              /\ UNCHANGED <<exitCode, exitCause, rows, serial, devices>>
         ELSE
           LET r == log_action(trace \o <<Ev("download", "", "", OkFail(dlOk), 0)>>,
                               rows, "download", "", OkFail(dlOk), dbOk)
               tx == r.trace \o <<Say("download_finished"),
                                  Ev("extract", "", "", OkFail(extracted), 0)>>
               te == tx \o <<Say("extracted"),
                             Ev("read_answer", "", "", "", 0)>>
               td == te \o <<Ev("enum_fastboot", "", "", "", n)>>
           IN
           IF r.threw
             THEN /\ Leave("sql", r.trace \o <<Say("[DB ERROR]")>>)
                  /\ rows' = r.rows
                  /\ UNCHANGED <<serial, devices>>
           ELSE IF ~dlOk
             THEN /\ trace' = r.trace
                  /\ rows' = r.rows
                  /\ pc' = "menu"
                  /\ UNCHANGED <<exitCode, exitCause, serial, devices>>
           ELSE IF ~extracted
             THEN /\ trace' = tx \o <<Say("extraction_failed")>>
                  /\ rows' = r.rows
                  /\ pc' = "menu"
                  /\ UNCHANGED <<exitCode, exitCause, serial, devices>>
           ELSE IF ~AnswersYes(ans)
             THEN /\ trace' = te \o <<Ev("sleep", "", "", "", 200)>>
                  /\ rows' = r.rows
                  /\ pc' = "menu"
                  /\ UNCHANGED <<exitCode, exitCause, serial, devices>>
           ELSE IF NoDevices(n)
             THEN /\ trace' = td \o <<Say("no_fastboot_devices")>>
                  /\ rows' = r.rows
                  /\ devices' = n
                  /\ pc' = "menu"
                  /\ UNCHANGED <<exitCode, exitCause, serial>>
           ELSE /\ trace' = td \o <<Ev("call_auto_flash_flow", "", "", "", n)>>
                /\ rows' = r.rows
                /\ devices' = n
                /\ serial' = ChooseSerial(n, idx)
                /\ pc' = "flow_start"
                /\ UNCHANGED <<exitCode, exitCause>>
  /\ UNCHANGED <<menuShown, branch, flowVars, classVars>>

\* sel == 2: show adb and fastboot devices
CheckDevice ==
  /\ pc = "dispatch" /\ branch = 2
  /\ \E n \in 0..MaxDevices :
       /\ devices' = n
       /\ trace' = trace \o
            <<Ev("adb_devices", "", "", "", 0), Ev("enum_fastboot", "", "", "", n),
              Say(IF n = 0 THEN "no_fastboot_devices" ELSE "fastboot_devices"),
              Ev("getch", "", "", "", 0), Ev("sleep", "", "", "", 200)>>
  /\ pc' = "menu"
  /\ UNCHANGED <<exitCode, exitCause, menuShown, branch, rows, serial,
                 flowVars, classVars>>

\* sel == 3: flash an already extracted folder
DirectFlash ==
  /\ pc = "dispatch" /\ branch = 3
  /\ \E l \in Listings, crlf \in BOOLEAN,
        n \in 0..MaxDevices, idx \in 0..(MaxDevices + 1) :
       LET found == list_img_files_in_dir(Dir, RawListing(l, crlf))
           tl == trace \o <<Ev("list_imgs", "", "", "", Len(found))>>
           td == tl \o <<Ev("enum_fastboot", "", "", "", n)>>
       IN
       IF found = <<>>
         THEN /\ trace' = tl \o <<Say("no_img_files")>>
              /\ pc' = "menu"
              /\ UNCHANGED <<serial, devices>>
       ELSE IF NoDevices(n)
         THEN /\ trace' = td \o <<Say("no_fastboot_devices")>>
              /\ devices' = n
              /\ pc' = "menu"
              /\ UNCHANGED serial
       ELSE /\ trace' = td \o <<Ev("call_auto_flash_flow", "", "", "", n)>>
            /\ devices' = n
            /\ serial' = ChooseSerial(n, idx)
            /\ pc' = "flow_start"
  /\ UNCHANGED <<exitCode, exitCause, menuShown, branch, rows,
                 flowVars, classVars>>

\* sel == 4: adb reboot or fastboot reboot
Reboot ==
  /\ pc = "dispatch" /\ branch = 4
  /\ \E r \in 1..2, n \in 0..MaxDevices, idx \in 0..(MaxDevices + 1) :
       IF r = 1
         THEN /\ trace' = trace \o <<Ev("reboot", "adb", "", "", 0),
                                     Ev("sleep", "", "", "", 200)>>
              /\ UNCHANGED <<serial, devices>>
       ELSE IF n = 0
         THEN /\ trace' = trace \o <<Ev("enum_fastboot", "", "", "", n),
                                     Say("no_fastboot_devices"),
                                     Ev("sleep", "", "", "", 200)>>
              /\ devices' = n
              /\ UNCHANGED serial
       ELSE /\ trace' = trace \o <<Ev("enum_fastboot", "", "", "", n),
                                   Ev("reboot", "fastboot", "", "",
                                      ChooseSerial(n, idx)),
                                   Say("reboot_issued"),
                                   Ev("sleep", "", "", "", 200)>>
            /\ devices' = n
            /\ serial' = ChooseSerial(n, idx)
  /\ pc' = "menu"
  /\ UNCHANGED <<exitCode, exitCause, menuShown, branch, rows,
                 flowVars, classVars>>

\* sel == 5: show_recent_logs(con, 20)
ViewLogs ==
  /\ pc = "dispatch" /\ branch = 5
  /\ \E dbOk \in BOOLEAN :
       trace' = trace \o <<Ev("query_logs", "", "", OkFail(dbOk), 20)>> \o
                (IF dbOk THEN <<>> ELSE <<Say("db_warn")>>) \o
                <<Ev("getch", "", "", "", 0), Ev("sleep", "", "", "", 200)>>
  /\ pc' = "menu"
  /\ UNCHANGED <<exitCode, exitCause, menuShown, branch, rows, serial,
                 devices, flowVars, classVars>>

\* any other selection, also -1 for input that is not a number
UnknownSelection ==
  /\ pc = "dispatch" /\ branch \notin 0..5
  /\ trace' = trace \o <<Say("unknown_selection"), Ev("sleep", "", "", "", 200)>>
  /\ pc' = "menu"
  /\ UNCHANGED <<exitCode, exitCause, menuShown, branch, rows, serial,
                 devices, flowVars, classVars>>

\* catch (exception& ex): an exception that is not an SQLException
\* (std::bad_alloc from any string or vector operation) inside the try block
StdException ==
  /\ pc \in {"start", "menu", "dispatch", "flow_start", "flow_confirm", "flow_loop"}
  /\ Leave("std_exception", trace \o <<Say("[ERROR]")>>)
  /\ UNCHANGED <<menuShown, branch, rows, serial, devices, flowVars, classVars>>

(* --------------------------- auto_flash_flow -------------------------- *)
\* the call returns into the menu loop, which pauses and prompts again
FlowReturn(how, tr) ==
  /\ outcome' = how
  /\ trace' = tr \o <<Ev("sleep", "", "", "", 200)>>
  /\ pc' = "menu"
  /\ UNCHANGED <<exitCode, exitCause>>

\* imgs = list_img_files_in_dir(extracted_dir); the empty case; the prompt.
\* flashOut fixes, for the run, what fastboot would report for each image.
FlowStart ==
  /\ pc = "flow_start"
  /\ \E l \in Listings, crlf \in BOOLEAN :
       LET found == list_img_files_in_dir(Dir, RawListing(l, crlf))
           tl == trace \o <<Ev("list_imgs", "", "", "", Len(found))>>
       IN
       /\ imgs' = found
       /\ IF NoImages(found)
            THEN /\ FlowReturn("NoImages", tl \o <<Say("no_image_files"),
                                                  Say("nested_hint")>>)
                 /\ flashOut' = <<>>
            ELSE /\ trace' = tl \o <<Say("found_images"), Say("confirm_prompt")>>
                 /\ pc' = "flow_confirm"
                 /\ \E f \in [1..Len(found) -> BOOLEAN] : flashOut' = f
                 /\ UNCHANGED <<exitCode, exitCause, outcome>>
  /\ UNCHANGED <<menuShown, branch, rows, serial, devices, i, confirm, classVars>>

\* cin >> confirm; anything but YES aborts and is logged
FlowConfirm ==
  /\ pc = "flow_confirm"
  /\ \E word \in ConfirmWords, dbOk \in BOOLEAN :
       LET tr == trace \o <<Ev("read_confirm", "", "", word, 0)>> IN
       /\ confirm' = word
       /\ IF ~ConfirmAccepted(word)
            THEN LET r == log_action(tr \o <<Say("aborted_by_user")>>, rows,
                                     "auto_flash", "", "aborted_by_user", dbOk)
                 IN /\ rows' = r.rows
                    /\ i' = i
                    /\ IF r.threw
                         THEN /\ Leave("sql", r.trace \o <<Say("[DB ERROR]")>>)
                              /\ UNCHANGED outcome
                         ELSE FlowReturn("Aborted", r.trace)
            ELSE /\ trace' = tr
                 /\ i' = 1
                 /\ pc' = "flow_loop"
                 /\ UNCHANGED <<exitCode, exitCause, outcome, rows>>
  /\ UNCHANGED <<menuShown, branch, serial, devices, imgs, flashOut, classVars>>

\* a slip that forgets to advance, so an image is taken again
ForNext_Stay(k) == k

\* ++i of the for loop
ForNext(k) == k + 1

\* one iteration of the for loop over imgs
FlowStep ==
  /\ pc = "flow_loop" /\ i <= Len(imgs)
  /\ LET img == imgs[i]
         fname == Basename(img)
         partition == guess_partition_from_filename(fname)
     IN
     IF SkipsUnmatched(partition)
       THEN /\ trace' = trace \o <<Ev("print", "skip_unknown", "", "", i)>>
            /\ i' = ForNext(i)
            /\ UNCHANGED <<pc, exitCode, exitCause, outcome, rows>>
       ELSE \E dbOk \in BOOLEAN :
         LET ok == flashOut[i]
             tf == trace \o <<Say("flashing"),
                              Ev("flash", "", partition, OkFail(ok), i)>>
             r == log_action(tf, rows, "flash_", partition, OkFail(ok), dbOk)
         IN /\ rows' = r.rows
            /\ IF r.threw
                 THEN /\ Leave("sql", r.trace \o <<Say("[DB ERROR]")>>)
                      /\ UNCHANGED <<i, outcome>>
               ELSE IF StopsOnFailure(ok)
                 THEN /\ FlowReturn("Halted", r.trace \o <<Say("flash_failed")>>)
                      /\ i' = i
               ELSE /\ trace' = r.trace \o <<Ev("sleep", "", "", "", 600)>>
                    /\ i' = ForNext(i)
                    /\ UNCHANGED <<pc, exitCode, exitCause, outcome>>
  /\ UNCHANGED <<menuShown, branch, serial, devices, imgs, confirm, flashOut,
                 classVars>>

\* a variant that reboots and logs only when something was flashed
FlowFinish_OnlyIfFlashed ==
  /\ pc = "flow_loop" /\ i > Len(imgs)
  /\ \E dbOk \in BOOLEAN :
       LET r == log_action(trace \o <<Say("all_flashed"),
                                      Ev("reboot", "fastboot", "", "", serial)>>,
                           rows, "auto_flash", "", "completed", dbOk)
       IN IF SelectKind(trace, "flash") = <<>>
            THEN /\ rows' = rows
                 /\ FlowReturn("Completed", trace \o <<Say("all_flashed")>>)
            ELSE /\ rows' = r.rows
                 /\ FlowReturn("Completed", r.trace)
  /\ UNCHANGED <<menuShown, branch, serial, devices, imgs, i, confirm, flashOut,
                 classVars>>

\* after the loop: fastboot_reboot(serial); log_action(auto_flash, completed)
FlowFinish ==
  /\ pc = "flow_loop" /\ i > Len(imgs)
  /\ \E dbOk \in BOOLEAN :
       LET r == log_action(trace \o <<Say("all_flashed"),
                                      Ev("reboot", "fastboot", "", "", serial)>>,
                           rows, "auto_flash", "", "completed", dbOk)
       IN /\ rows' = r.rows
          /\ IF r.threw
               THEN /\ Leave("sql", r.trace \o <<Say("[DB ERROR]")>>)
                    /\ UNCHANGED outcome
               ELSE FlowReturn("Completed", r.trace)
  /\ UNCHANGED <<menuShown, branch, serial, devices, imgs, i, confirm, flashOut,
                 classVars>>

Next ==
  \/ Connect
  \/ PromptMenu
  \/ Download
  \/ CheckDevice
  \/ DirectFlash
  \/ Reboot
  \/ ViewLogs
  \/ UnknownSelection
  \/ StdException
  \/ FlowStart
  \/ FlowConfirm
  \/ FlowStep
  \/ FlowFinish

Spec == Init /\ [][Next]_vars

(* ---------------- the classifier on its own inputs -------------------- *)
InitClassify ==
  /\ ExtractIdle
  /\ pc = "classify"
  /\ cname \in ClassifierNames
  /\ cres = "?"
  /\ exitCode = -1
  /\ exitCause = "none"
  /\ menuShown = FALSE
  /\ branch = -1
  /\ trace = <<>>
  /\ rows = <<>>
  /\ imgs = <<>>
  /\ i = 0
  /\ serial = 0
  /\ devices = 0
  /\ outcome = "none"
  /\ confirm = ""
  /\ flashOut = <<>>

\* partition = guess_partition_from_filename(fname)
Classify ==
  /\ pc = "classify"
  /\ cres' = guess_partition_from_filename(cname)
  /\ pc' = "classified"
  /\ UNCHANGED <<cname, exitCode, exitCause, menuShown, branch, trace, rows,
                 serial, devices, flowVars, extractVars>>

NextClassify == Classify

SpecClassify == InitClassify /\ [][NextClassify]_vars

(* ------------------ extract_archive_simple on its own ----------------- *)
\* the files a target directory or an archive may hold, in listing order
XOrder == <<F_a_boot, F_b_system, F_c_unknown>>
XFiles == { XOrder[k] : k \in 1..Len(XOrder) }

\* the shell pattern *.img of the listing command
EndsWithImg(name) ==
  Len(name) >= 4 /\ SubSeq(name, Len(name) - 3, Len(name)) = <<".","i","m","g">>

\* the lines the listing command prints for a directory content d
ImgLines(d) ==
  SelectSeq(XOrder, LAMBDA f : d[f] # "absent" /\ EndsWithImg(f))

\* unzip -o / tar -xf write every member of the archive into the directory,
\* replacing a file of the same name
Unpack(d, archive) == [f \in XFiles |-> IF f \in archive THEN "new" ELSE d[f]]

\* the POSIX branch: make_dir; unzip -o; list; tar -xf; list.
\* unzipOk and tarOk say whether the tool is present and can read the archive.
extract_archive_simple(d, archive, unzipOk, tarOk) ==
  LET d1 == IF unzipOk THEN Unpack(d, archive) ELSE d
      c1 == <<Ev("extractor", "unzip -o", "", OkFail(unzipOk), 0)>>
      d2 == IF tarOk THEN Unpack(d1, archive) ELSE d1
      c2 == c1 \o <<Ev("extractor", "tar -xf", "", OkFail(tarOk), 0)>>
  IN IF list_img_files_in_dir(Dir, ImgLines(d1)) # <<>>
       THEN [dir |-> d1, calls |-> c1, res |-> TRUE]
       ELSE [dir |-> d2, calls |-> c2,
             res |-> list_img_files_in_dir(Dir, ImgLines(d2)) # <<>>]

InitExtract ==
  /\ pc = "extract"
  /\ xin \in [dir : [XFiles -> {"absent", "old"}], archive : SUBSET XFiles,
              unzipOk : BOOLEAN, tarOk : BOOLEAN]
  /\ tdir = xin.dir
  /\ xcalls = <<>>
  /\ xres = FALSE
  /\ cname = <<>>
  /\ cres = ""
  /\ exitCode = -1
  /\ exitCause = "none"
  /\ menuShown = FALSE
  /\ branch = -1
  /\ trace = <<>>
  /\ rows = <<>>
  /\ imgs = <<>>
  /\ i = 0
  /\ serial = 0
  /\ devices = 0
  /\ outcome = "none"
  /\ confirm = ""
  /\ flashOut = <<>>

\* extracted = extract_archive_simple(outpath, extract_dir)
ExtractArchive ==
  /\ pc = "extract"
  /\ LET r == extract_archive_simple(tdir, xin.archive, xin.unzipOk, xin.tarOk)
     IN /\ tdir' = r.dir
        /\ xcalls' = r.calls
        /\ xres' = r.res
  /\ pc' = "extracted"
  /\ UNCHANGED <<xin, cname, cres, exitCode, exitCause, menuShown, branch, trace,
                 rows, serial, devices, flowVars>>

NextExtract == ExtractArchive

SpecExtract == InitExtract /\ [][NextExtract]_vars

(* ======================= properties of the code ======================= *)
\* helpers of the properties
Flashes == SelectKind(trace, "flash")
Logs == SelectKind(trace, "log")
Reboots == SelectSeq(trace, LAMBDA e : e.kind = "reboot" /\ e.act = "fastboot")
HasKind(kind) == \E k \in 1..Len(trace) : trace[k].kind = kind
Said(msg) == \E k \in 1..Len(trace) : trace[k] = Say(msg)
PartitionOf(path) == guess_partition_from_filename(Basename(path))
Matched == { k \in 1..Len(imgs) : PartitionOf(imgs[k]) # "" }
LogFields(e) == <<e.act, e.part, e.res>>
FlowReturned == outcome # "none"

\* the part of the iteration's record made inside auto_flash_flow
FlowPart ==
  IF HasKind("call_auto_flash_flow")
    THEN SubSeq(trace,
                (CHOOSE k \in 1..Len(trace) : trace[k].kind = "call_auto_flash_flow") + 1,
                Len(trace))
    ELSE <<>>
FlowLogs == SelectKind(FlowPart, "log")
FlashLogs == SelectSeq(trace, LAMBDA e : e.kind = "log" /\ e.act = "flash_")

\* C1: every file name containing vendor_boot (in any letter case) is
\* classified as vendor_boot, never as boot or vendor.
C1_VendorBootWins ==
  (pc = "classified" /\ Contains(ToLowerStr(cname), M_vendor_boot))
    => cres = "vendor_boot"

\* C2: once a flash attempt fails no later image is attempted; for three
\* matched images whose second attempt fails there are exactly two attempts,
\* logged OK then FAIL for the failing partition, and the third image is
\* never handed to fastboot.
C2_StopsAtFirstFailure ==
  LET fl == Flashes
      lg == FlashLogs
  IN
  /\ \A k \in 1..Len(fl) : fl[k].res = "FAIL" => k = Len(fl)
  /\ ( /\ FlowReturned
       /\ Len(imgs) = 3 /\ confirm = "YES" /\ flashOut[1] /\ ~flashOut[2]
       /\ Matched = {1, 2, 3} )
     => /\ outcome = "Halted"
        /\ Len(fl) = 2
        /\ fl[1].idx = 1 /\ fl[1].res = "OK"
        /\ fl[2].idx = 2 /\ fl[2].res = "FAIL"
        /\ \A k \in 1..Len(fl) : fl[k].idx # 3
        /\ Len(lg) = 2
        /\ LogFields(lg[1]) = <<"flash_", PartitionOf(imgs[1]), "OK">>
        /\ LogFields(lg[2]) = <<"flash_", PartitionOf(imgs[2]), "FAIL">>

C2_Witness ==
  /\ pc = "menu" /\ outcome = "Halted"
  /\ Len(imgs) = 3 /\ Matched = {1, 2, 3}
  /\ flashOut[1] /\ ~flashOut[2] /\ Len(Flashes) = 2

\* C3: a confirmation other than exactly YES gives zero flash attempts, the
\* aborted outcome, and exactly one log call, (auto_flash, aborted_by_user),
\* which is not a failure entry.
C3_AbortLoggedAsAbort ==
  (\E k \in 1..Len(trace) : trace[k].kind = "read_confirm" /\ trace[k].res # "YES")
    => /\ outcome = "Aborted"
       /\ Flashes = <<>>
       /\ Reboots = <<>>
       /\ Len(FlowLogs) = 1
       /\ LogFields(FlowLogs[1]) = <<"auto_flash", "", "aborted_by_user">>
       /\ SelectSeq(rows, LAMBDA r : r[1] # "download")
            \in { <<>>, << <<"auto_flash", "", "aborted_by_user">> >> }

C3_Witness ==
  /\ pc = "menu" /\ outcome = "Aborted" /\ confirm = "yes"
  /\ Len(FlowLogs) = 1 /\ Flashes = <<>>

\* C4: with an empty image list the run ends in the no-images outcome and
\* the operator is never asked; nothing is flashed and no reboot is asked.
C4_EmptyListNeverAsks ==
  ( \/ outcome = "NoImages"
    \/ \E k \in 1..Len(FlowPart) :
         FlowPart[k].kind = "list_imgs" /\ FlowPart[k].idx = 0 )
    => /\ outcome = "NoImages"
       /\ imgs = <<>>
       /\ ~Said("confirm_prompt")
       /\ ~HasKind("read_confirm")
       /\ Flashes = <<>>
       /\ Reboots = <<>>

C4_Witness ==
  /\ pc = "menu" /\ outcome = "NoImages" /\ branch = 3
  /\ Said("no_image_files")

\* C5: a confirmed run whose flash attempts all succeed records exactly the
\* matched images in list order with their partitions, skips the unmatched
\* ones with a warning, ends completed and asks for one reboot.
C5_AllSucceed ==
  LET fl == Flashes
      matched == Matched
      skipped == { k \in 1..Len(imgs) :
                     \E m \in 1..Len(trace) :
                       trace[m] = Ev("print", "skip_unknown", "", "", k) }
  IN
  ( /\ FlowReturned /\ imgs # <<>> /\ confirm = "YES"
    /\ \A k \in matched : flashOut[k] )
    => /\ outcome = "Completed"
       /\ Len(Reboots) = 1
       /\ Len(fl) = Cardinality(matched)
       /\ { fl[j].idx : j \in 1..Len(fl) } = matched
       /\ \A j \in 1..Len(fl) :
            /\ fl[j].res = "OK"
            /\ fl[j].part = PartitionOf(imgs[fl[j].idx])
            /\ j > 1 => fl[j - 1].idx < fl[j].idx
       /\ skipped = (1..Len(imgs)) \ matched
       /\ imgs = << Dir \o <<"/">> \o F_a_boot, Dir \o <<"/">> \o F_b_system,
                    Dir \o <<"/">> \o F_c_unknown >>
            => /\ Len(fl) = 2
               /\ <<fl[1].part, fl[1].res>> = <<"boot", "OK">>
               /\ <<fl[2].part, fl[2].res>> = <<"system", "OK">>

C5_Witness ==
  /\ pc = "menu" /\ outcome = "Completed"
  /\ imgs = << Dir \o <<"/">> \o F_a_boot, Dir \o <<"/">> \o F_b_system,
               Dir \o <<"/">> \o F_c_unknown >>
  /\ Len(Flashes) = 2 /\ Len(Reboots) = 1

\* C6: every branch of the menu controller (download/extract/flash, device
\* check, direct flash, and their early exits) ends with a call to
\* log_action before control returns to the menu.
C6_EveryBranchEndsWithLog ==
  (pc = "menu" /\ branch \in {1, 2, 3})
    => LET acts == SelectSeq(trace, LAMBDA e : e.kind \notin {"print", "sleep"})
       IN acts # <<>> /\ acts[Len(acts)].kind = "log"

RECURSIVE RefAttempts(_, _, _)
\* the flash attempts of a confirmed run over list with reports f, from
\* image k on, when nothing but the images and the reports decides them
RefAttempts(list, f, k) ==
  IF k > Len(list) THEN <<>>
  ELSE LET part == PartitionOf(list[k]) IN
       IF part = "" THEN RefAttempts(list, f, k + 1)
       ELSE IF f[k] THEN << <<k, part, "OK">> >> \o RefAttempts(list, f, k + 1)
       ELSE << <<k, part, "FAIL">> >>

RefRun(list, word, f) ==
  IF list = <<>> THEN [outcome |-> "NoImages", attempts |-> <<>>, reboots |-> 0]
  ELSE IF word # "YES" THEN [outcome |-> "Aborted", attempts |-> <<>>, reboots |-> 0]
  ELSE LET a == RefAttempts(list, f, 1)
           halted == a # <<>> /\ a[Len(a)][3] = "FAIL"
       IN [outcome |-> IF halted THEN "Halted" ELSE "Completed",
           attempts |-> a,
           reboots |-> IF halted THEN 0 ELSE 1]

AttemptsMade ==
  LET fl == Flashes IN [k \in 1..Len(fl) |-> <<fl[k].idx, fl[k].part, fl[k].res>>]
FailedWrites == { k \in 1..Len(trace) : trace[k].kind = "log" /\ trace[k].idx = 0 }

\* C7: a failing log write never changes the calling operation: whatever
\* writes fail, the flash attempts, the reboot request and the outcome of a
\* run are those fixed by the images, the confirmation and the fastboot
\* reports alone; the failure only shows as a warning.
C7_LogFailureIsHarmless ==
  LET failed == FailedWrites IN
  /\ exitCause # "sql"
  /\ \A k \in failed : k < Len(trace) /\ trace[k + 1] = Say("db_warn")
  /\ Len(rows) = Len(Logs) - Cardinality(failed)
  /\ FlowReturned =>
       LET ref == RefRun(imgs, confirm, flashOut) IN
       /\ outcome = ref.outcome
       /\ AttemptsMade = ref.attempts
       /\ Len(Reboots) = ref.reboots
  /\ (pc = "menu" /\ branch = 1 /\ failed # {} /\ ~FlowReturned
        /\ \E k \in 1..Len(Logs) : LogFields(Logs[k]) = <<"download", "", "OK">>)
       => HasKind("extract")

C7_Witness ==
  /\ pc = "menu" /\ outcome = "Completed"
  /\ Len(Flashes) >= 2
  /\ Cardinality(FailedWrites) >= 2
  /\ rows = <<>>

\* C8 as stated: exit code 0 on a normal quit and on a top-level error that
\* is not a datastore error; 1 when the connection fails at startup, the
\* menu never having been shown.
C8_ExitZeroOnGenericError ==
  pc = "exited" =>
    /\ exitCause \in {"quit", "std_exception"} => exitCode = 0
    /\ exitCause = "db_connect" => (exitCode = 1 /\ ~menuShown)

\* C8 amended: exit code 0 only on a normal quit; 1 on every exception that
\* reaches main's handlers, after a message: the connection failure at
\* startup (menu never shown) and any other std::exception alike.
C8_ExitCodes ==
  /\ pc # "exited" => (exitCode = -1 /\ exitCause = "none")
  /\ pc = "exited" =>
       /\ exitCause \in {"quit", "db_connect", "std_exception"}
       /\ exitCause = "quit" => (exitCode = 0 /\ menuShown /\ branch = 0)
       /\ exitCause = "std_exception" =>
            (exitCode = 1 /\ trace[Len(trace)] = Say("[ERROR]"))
       /\ exitCause = "db_connect" =>
            (exitCode = 1 /\ ~menuShown /\ trace[Len(trace)] = Say("[DB ERROR]"))

C8_Witness ==
  /\ pc = "exited" /\ exitCause = "std_exception" /\ exitCode = 1
  /\ menuShown /\ Flashes # <<>>

N_boot_img == M_boot_img
N_RECOVERY_IMG == <<"R","E","C","O","V","E","R","Y",".","I","M","G">>
N_random_blob_bin == <<"r","a","n","d","o","m","_","b","l","o","b",".","b","i","n">>
Markers == { M_boot_img, M_vendor_boot, M_system_img, M_vendor_img, M_vbmeta_img,
             M_recovery_img, M_product_img, M_userdata_img,
             M_boot, M_system, M_vendor }

\* C9: the classifier is case-insensitive and total: names differing only in
\* letter case get the same result (boot.img: boot, RECOVERY.IMG: recovery),
\* and a name with none of the markers or tokens gives the empty result.
C9_CaseInsensitiveTotal ==
  pc = "classified" =>
    /\ cres \in Partitions \cup {""}
    /\ cres = guess_partition_from_filename(ToUpperStr(cname))
    /\ cres = guess_partition_from_filename([k \in 1..Len(cname) |-> tolower(cname[k])])
    /\ (\A m \in Markers : ~Contains([k \in 1..Len(cname) |-> tolower(cname[k])], m))
         => cres = ""
    /\ cname = N_boot_img => cres = "boot"
    /\ cname = N_RECOVERY_IMG => cres = "recovery"
    /\ cname = N_random_blob_bin => cres = ""

C9_Witness ==
  pc = "classified" /\ cname = N_RECOVERY_IMG /\ cres = "recovery"

EnumEvents == SelectKind(trace, "enum_fastboot")

\* C10: auto_flash_flow is never entered after an empty fastboot enumeration:
\* in both calling branches the empty list is reported, the enumeration is
\* not repeated, and control goes back to the menu without a flash attempt.
C10_NoFlowWithoutDevice ==
  /\ pc \in {"flow_start", "flow_confirm", "flow_loop"}
       => (devices > 0 /\ serial \in 1..devices)
  /\ (HasKind("call_auto_flash_flow") \/ FlowReturned \/ Flashes # <<>>)
       => (Len(EnumEvents) = 1 /\ EnumEvents[1].idx > 0)
  /\ (branch \in {1, 3} /\ \E k \in 1..Len(EnumEvents) : EnumEvents[k].idx = 0)
       => /\ pc \in {"menu", "exited"}
          /\ Len(EnumEvents) = 1
          /\ Said("no_fastboot_devices")
          /\ ~HasKind("call_auto_flash_flow")
          /\ ~FlowReturned
          /\ Flashes = <<>> /\ Reboots = <<>>

C10_Witness ==
  /\ pc = "menu" /\ branch = 1 /\ devices = 0
  /\ Len(EnumEvents) = 1 /\ EnumEvents[1].idx = 0
  /\ Said("no_fastboot_devices")

HadImages == \E f \in XFiles : EndsWithImg(f) /\ xin.dir[f] # "absent"

\* C11: extract_archive_simple on a target directory that already holds
\* image files reports success and leaves every file that was there as it
\* was: no extractor is run in a way that overwrites them.
C11_ExistingFilesUntouched ==
  (pc = "extracted" /\ HadImages)
    => /\ xres = TRUE
       /\ \A f \in XFiles : xin.dir[f] # "absent" => tdir[f] = xin.dir[f]

\* C12: within a run the images are visited in list order and each is
\* attempted at most once; every flash attempt is followed at once by one
\* log call flash_<partition> with OK or FAIL, so the flash_ log calls are the
\* attempts in order; skipped and unreached images give no log call.
C12_OneLogPerAttempt ==
  LET fl == Flashes
      lg == FlashLogs
      matched == Matched
  IN
  /\ \A j \in 2..Len(fl) : fl[j - 1].idx < fl[j].idx
  /\ \A j \in 1..Len(fl) :
       /\ fl[j].idx \in matched
       /\ fl[j].idx <= i
  /\ \A k \in 1..Len(trace) :
       trace[k].kind = "flash"
         => /\ k < Len(trace)
            /\ trace[k + 1].kind = "log"
            /\ LogFields(trace[k + 1]) = <<"flash_", trace[k].part, trace[k].res>>
  /\ Len(lg) = Len(fl)
  /\ \A j \in 1..Len(lg) :
       /\ lg[j].res \in {"OK", "FAIL"}
       /\ lg[j].part = PartitionOf(imgs[fl[j].idx])
       /\ lg[j].res = fl[j].res

C12_Witness ==
  /\ pc = "menu" /\ outcome = "Halted"
  /\ Len(imgs) = 3 /\ Matched = {2, 3}
  /\ Len(Flashes) = 1 /\ Flashes[1].idx = 2 /\ Len(FlashLogs) = 1

CompletedLogged ==
  \E k \in 1..Len(FlowLogs) : LogFields(FlowLogs[k]) = <<"auto_flash", "", "completed">>
FlowRebooted ==
  \E k \in 1..Len(FlowPart) : FlowPart[k].kind = "reboot" /\ FlowPart[k].act = "fastboot"
\* the report each way out of auto_flash_flow prints
ExitReport ==
  [NoImages |-> "no_image_files", Aborted |-> "aborted_by_user",
   Halted |-> "flash_failed", Completed |-> "all_flashed"]
Outcomes == {"NoImages", "Aborted", "Halted", "Completed"}

\* C13: in a run of auto_flash_flow the fastboot reboot and the log call
\* (auto_flash, completed) happen only when the run reaches Completed, never
\* in a run that ends with no images, an abort or a halt on a failed flash;
\* the four ways out exclude one another.
C13_RebootOnlyWhenCompleted ==
  LET fp == FlowPart
      logged == \E k \in 1..Len(fp) :
                  fp[k].kind = "log" /\ LogFields(fp[k]) = <<"auto_flash", "", "completed">>
      rebooted == \E k \in 1..Len(fp) : fp[k].kind = "reboot" /\ fp[k].act = "fastboot"
      reports == { trace[k].act : k \in { m \in 1..Len(trace) : trace[m].kind = "print" } }
  IN
  /\ outcome \in Outcomes \cup {"none"}
  /\ (logged \/ rebooted) => (outcome = "Completed" /\ logged /\ rebooted)
  /\ outcome \in {"NoImages", "Aborted", "Halted"}
       => (~logged /\ ~rebooted /\ Reboots = <<>>)
  /\ (\E k \in 1..Len(trace) : trace[k].kind = "flash" /\ trace[k].res = "FAIL")
       => (~logged /\ ~rebooted /\ outcome = "Halted")
  /\ \A o \in Outcomes : outcome = o <=> ExitReport[o] \in reports
  /\ Cardinality({ o \in Outcomes : ExitReport[o] \in reports }) <= 1
  /\ Len(SelectSeq(fp, LAMBDA e : e.kind = "sleep" /\ e.idx = 200))
       = (IF FlowReturned THEN 1 ELSE 0)

C13_Witness ==
  /\ pc = "menu" /\ branch = 1 /\ outcome = "Completed"
  /\ Len(imgs) = 3 /\ Matched = {1, 2, 3}
  /\ CompletedLogged /\ FlowRebooted /\ Len(Flashes) = 3

\* C14: a confirmed run over a non-empty list in which no name matches a
\* partition makes no flash attempt and still asks for the reboot once and
\* logs (auto_flash, completed): Completed does not mean anything was flashed.
C14_CompletedWithoutFlashing ==
  LET fp == FlowPart
      lg == SelectKind(fp, "log")
  IN
  (FlowReturned /\ confirm = "YES" /\ imgs # <<>> /\ Matched = {})
    => /\ outcome = "Completed"
       /\ Flashes = <<>>
       /\ Len(SelectSeq(fp, LAMBDA e : e.kind = "reboot")) = 1
       /\ \E k \in 1..Len(fp) : fp[k].kind = "reboot" /\ fp[k].act = "fastboot"
       /\ Len(lg) = 1
       /\ LogFields(lg[1]) = <<"auto_flash", "", "completed">>
       /\ \A k \in 1..Len(imgs) :
            \E m \in 1..Len(trace) : trace[m] = Ev("print", "skip_unknown", "", "", k)

C14_Witness ==
  /\ pc = "menu" /\ outcome = "Completed"
  /\ imgs = << Dir \o <<"/">> \o F_c_unknown >>
  /\ Flashes = <<>> /\ FlowRebooted /\ CompletedLogged
====
